---- MODULE Spec2Model ----
(***************************************************************************)
(* Incremental collection pipeline of the Health Connect Gateway           *)
(* collector (src/src/core/data_extractors/hc_collect.py): state store,    *)
(* record store, token manager, fetch with retry, collect_once and the     *)
(* batch driver.                                                           *)
(*                                                                         *)
(* Time is counted in minutes since 1970-01-01T00:00:00.  A string that is *)
(* used as a timestamp is a record [k, loc, sfx]:                          *)
(*   k = "none"  : None / key missing                                      *)
(*   k = "empty" : the empty string                                        *)
(*   k = "bad"   : a non-empty string datetime.fromisoformat rejects       *)
(*   k = "ts"    : "YYYY-MM-DDTHH:MM:SS" for local minute loc, followed by *)
(*                 the suffix sfx: "" (naive), "Z", "+00:00" or "+01:00"   *)
(***************************************************************************)
EXTENDS Integers, Sequences, FiniteSets, TLC

\* ------------------------------------------------------------- bounds
\* most records in one fetch response
MaxBatch == 2
\* most collect_once cycles in one run
MaxCycles == 2
\* most minutes the clock advances in one run
MaxTicks == 1
\* most bundles the remote issues in a run of the token manager alone
MaxIssued == 3
\* most minutes the clock advances in a run of the token manager alone
MaxClock == 8
\* most callers that run concurrently
MaxLoops == 2

\* ---------------------------------------------------- program constants
\* TokenBundle.is_expiring(buffer_minutes=5)
BufferMinutes == 5
\* load_state: timedelta(hours=24)
DefaultHours == 24
\* fetch_method: stop_after_attempt(3)
MaxAttempts == 3
\* collect_once.end_or_start_iso: "1970-01-01T00:00:00Z"
EpochLoc == 0

\* the clock at the start of a run, and three record instants before it
Now0 == 20000 * 24 * 60
T1 == Now0 - 3 * 60
T2 == Now0 - 90
T3 == Now0 - 60

\* METHODS = config.get_hcg_methods()
METHODS == <<"steps", "heartRate">>
Metrics == {METHODS[i] : i \in DOMAIN METHODS}

\* ------------------------------------------------------------ strings
NoneStr == [k |-> "none", loc |-> 0, sfx |-> ""]
EmptyStr == [k |-> "empty", loc |-> 0, sfx |-> ""]
BadStr == [k |-> "bad", loc |-> 0, sfx |-> ""]
Ts(loc, sfx) == [k |-> "ts", loc |-> loc, sfx |-> sfx]

\* Python truthiness of an optional string
Truthy(s) == s.k \notin {"none", "empty"}

\* the UTC offset, in minutes, a suffix denotes (naive is taken as UTC)
OffsetOf(sfx) == IF sfx = "+01:00" THEN 60 ELSE 0

\* Python's lexicographic str order on non-empty strings: the fixed-width
\* date-time digits first, then the suffix ("" < "+.." < "Z"); a string
\* that is no timestamp starts with a letter and sorts after every digit.
SfxRank(sfx) == CASE sfx = "" -> 0 [] sfx = "+00:00" -> 1 [] sfx = "+01:00" -> 2 [] OTHER -> 3
StrLess(a, b) ==
  IF a.k = "ts" /\ b.k = "ts"
  THEN a.loc < b.loc \/ (a.loc = b.loc /\ SfxRank(a.sfx) < SfxRank(b.sfx))
  ELSE a.k = "ts" /\ b.k = "bad"

\* datetime.isoformat() of an aware datetime [loc, off]
isoformat(dt) == Ts(dt.loc, IF dt.off = 0 THEN "+00:00" ELSE "+01:00")

\* parse_iso_datetime raises ValueError on these
ParseFails(s) == s.k # "ts"
\* parse_iso_datetime: "Z" -> "+00:00", fromisoformat, naive -> tzinfo=UTC;
\* an explicit offset is kept as it is
parse_iso_datetime(s) == [loc |-> s.loc, off |-> OffsetOf(s.sfx)]

\* the instant (UTC minutes) of an aware datetime
Instant(dt) == dt.loc - dt.off

\* datetime.now(timezone.utc) at clock t
NowUtc(t) == [loc |-> t, off |-> 0]
\* utc_now_iso
utc_now_iso(t) == isoformat(NowUtc(t))

\* ---------------------------------------------------------- state store
AbsentDoc == [k |-> "absent", last_since |-> NoneStr]
CorruptDoc == [k |-> "corrupt", last_since |-> NoneStr]
Doc(s) == [k |-> "doc", last_since |-> s]

\* (now - 24h).replace(microsecond=0).isoformat()
DefaultSince(t) == isoformat([loc |-> t - DefaultHours * 60, off |-> 0])

\* load_state on the document doc at clock t: [exc, last_since]
load_state(doc, t) ==
  IF doc.k = "absent" THEN [exc |-> "", last_since |-> DefaultSince(t)]
  ELSE IF doc.k = "corrupt" THEN [exc |-> "JSONDecodeError", last_since |-> NoneStr]
  ELSE IF Truthy(doc.last_since)
       THEN IF ParseFails(doc.last_since)
            THEN [exc |-> "", last_since |-> DefaultSince(t)]
            ELSE [exc |-> "", last_since |-> isoformat(parse_iso_datetime(doc.last_since))]
       ELSE [exc |-> "", last_since |-> doc.last_since]

\* a variant that writes last_since as it was given
save_state_raw(s) == Doc(s)
\* save_state: the document written for a state whose last_since is s
save_state(s) ==
  IF Truthy(s) /\ ~ParseFails(s)
  THEN Doc(isoformat(parse_iso_datetime(s)))
  ELSE Doc(s)

\* --------------------------------------------------------- record store
\* The CSV file of a metric: exists, and its data rows as text.  A row is
\* [_id, start, end, data, ingested_at]; data stands for the serialized
\* payload (data_json), a version number of the record's content.
NoFile == [exists |-> FALSE, rows |-> <<>>]

\* the record ids the remote hands out; "7" is an id made of digits only
Ids == {"a", "7"}
\* whether pandas' type inference reads the text as an integer
NumericLooking(id) == id = "7"

\* DataFrame.to_csv: None and the empty string are both written as an empty
\* cell; an integer id is written as its digits
CellText(s) == IF Truthy(s) THEN s ELSE EmptyStr
to_csv(df) ==
  [i \in DOMAIN df |->
     [_id |-> df[i]._id, start |-> CellText(df[i].start), end |-> CellText(df[i].end),
      data |-> df[i].data, ingested_at |-> df[i].ingested_at]]

\* pd.read_csv: a column whose every cell is an integer literal is read as
\* int64, any other column as str objects; idty is the type of the _id cell
read_csv(rows) ==
  LET allInt == \A i \in DOMAIN rows : NumericLooking(rows[i]._id)
  IN  [i \in DOMAIN rows |->
         [_id |-> rows[i]._id, idty |-> IF allInt THEN "int" ELSE "str",
          start |-> rows[i].start, end |-> rows[i].end,
          data |-> rows[i].data, ingested_at |-> rows[i].ingested_at]]

\* DataFrame.drop_duplicates(subset=["_id"], keep="last"): two cells are the
\* same key when they are equal Python objects (1 and "1" are not)
SameKey(r, q) == r._id = q._id /\ r.idty = q.idty
\* the rows of df from index i on that no later row duplicates
RECURSIVE KeepLastFrom(_, _)
KeepLastFrom(df, i) ==
  IF i > Len(df) THEN <<>>
  ELSE (IF \A j \in (i + 1)..Len(df) : ~SameKey(df[j], df[i]) THEN <<df[i]>> ELSE <<>>)
       \o KeepLastFrom(df, i + 1)
drop_duplicates(df) == KeepLastFrom(df, 1)

\* the records of append_csv: one DataFrame row per fetched item, stamped
frame_of(rows, t) ==
  [i \in DOMAIN rows |->
     [_id |-> rows[i]._id, idty |-> "str", start |-> rows[i].start, end |-> rows[i].end,
      data |-> rows[i].data, ingested_at |-> utc_now_iso(t)]]

\* a variant without the early return on an empty list
append_csv_always(file, rows, t) ==
  IF file.exists
  THEN [exists |-> TRUE,
        rows |-> to_csv(drop_duplicates(read_csv(file.rows) \o frame_of(rows, t)))]
  ELSE [exists |-> TRUE, rows |-> to_csv(drop_duplicates(frame_of(rows, t)))]
\* append_csv: the file after appending rows at clock t
append_csv(file, rows, t) ==
  IF rows = <<>> THEN file
  ELSE IF file.exists
       THEN [exists |-> TRUE,
             rows |-> to_csv(drop_duplicates(read_csv(file.rows) \o frame_of(rows, t)))]
       ELSE [exists |-> TRUE, rows |-> to_csv(drop_duplicates(frame_of(rows, t)))]

\* ------------------------------------------------------------- sorting
\* a variant that forgets the start of a record without end
end_or_epoch_iso(x) == IF Truthy(x.end) THEN x.end ELSE Ts(EpochLoc, "Z")
\* collect_once.end_or_start_iso
end_or_start_iso(x) ==
  IF Truthy(x.end) THEN x.end
  ELSE IF Truthy(x.start) THEN x.start
  ELSE Ts(EpochLoc, "Z")

\* insert x after every element whose key is not greater (stable)
RECURSIVE InsertSorted(_, _)
InsertSorted(s, x) ==
  IF s = <<>> THEN <<x>>
  ELSE IF StrLess(end_or_start_iso(x), end_or_start_iso(s[Len(s)]))
       THEN InsertSorted(SubSeq(s, 1, Len(s) - 1), x) \o <<s[Len(s)]>>
       ELSE s \o <<x>>

\* items.sort(key=end_or_start_iso): a stable sort by the key's str order
RECURSIVE sort_items(_)
sort_items(items) ==
  IF items = <<>> THEN <<>>
  ELSE InsertSorted(sort_items(SubSeq(items, 1, Len(items) - 1)), items[Len(items)])

\* --------------------------------------------------------------- inputs
Rec(id, start, end, data) == [_id |-> id, start |-> start, end |-> end, data |-> data]
\* the records the remote may return: the record of the worked example, and
\* one with a digits-only id, no end, and a non-UTC offset whose text sorts
\* after the first record's although its instant lies before it
SampleRecords ==
  { Rec("a", Ts(T1, "Z"), Ts(T2, "Z"), 1),
    Rec("7", Ts(T3, "+01:00"), NoneStr, 1) }

RECURSIVE SeqsUpTo(_, _)
SeqsUpTo(S, n) ==
  IF n = 0 THEN {<<>>}
  ELSE LET shorter == SeqsUpTo(S, n - 1)
       IN  shorter \cup {Append(q, x) : q \in shorter, x \in S}

\* the records inside a JSON object, such as {"data": [...]}, that the remote
\* may answer with in place of a list
WrappedPayload == <<Rec("a", Ts(T1, "Z"), Ts(T2, "Z"), 1)>>

\* what one HTTP request to /api/v2/fetch/{method} may come back with:
\* a JSON list, a JSON value that is no list, status 401, a 5xx or a
\* network error
Responses ==
  {[kind |-> "list", items |-> q] : q \in SeqsUpTo(SampleRecords, MaxBatch)}
  \cup {[kind |-> "nonlist", items |-> WrappedPayload]}
  \cup {[kind |-> k, items |-> <<>>] : k \in {"401", "transient"}}

\* a variant that takes the records out of a JSON object
as_list_unchecked(resp) == resp.items
\* collect_once, lines 264-265: a decoded value that is no list counts as []
as_list(resp) == IF resp.kind = "list" THEN resp.items ELSE <<>>

\* the state documents a metric may have been left with by earlier runs
InitDocs ==
  {AbsentDoc, CorruptDoc, Doc(NoneStr), Doc(BadStr), Doc(Ts(T1, "Z")), Doc(Ts(T1, "+01:00"))}

\* the start_date / end_date arguments of a call
StartDates == {NoneStr, Ts(T1, "Z")}
EndDates == {NoneStr, Ts(T3, "Z")}

\* ---------------------------------------------------------------- state
VARIABLES
  now,        \* the wall clock, minutes
  stateFile,  \* STATE_DIR/{method}.json per metric
  csvFile,    \* DATA_DIR/{method}.csv per metric
  bundle,     \* TokenManager.bundle
  issued,     \* bundles the remote has issued so far
  pc,         \* where the collector stands
  mode,       \* the entry point of the current or last call
  queue,      \* the methods still to collect, the current one first
  results,    \* collect_all_methods_data: results per method
  fr,         \* the locals of the running collect_once
  ret,        \* how the last collect_once (or login) ended
  cycles,     \* collect_once calls started
  pre,        \* the stores as they were when the running collect_once began
  log,        \* the I/O of the running collect_once, in order
  prev,       \* the cycle before, when it fetched an empty list: its method
              \* and that method's stores as they were before it
  latest,     \* per metric and record id, the row last handed to append_csv
  threads,    \* the callers that run concurrently: per thread, where it stands
              \* and its locals
  redeemed    \* the remote's ledger: refresh tokens it has exchanged for a bundle

vars ==
  <<now, stateFile, csvFile, bundle, issued, pc, mode, queue, results, fr, ret, cycles, pre, log,
    prev, latest, threads, redeemed>>

\* ------------------------------------------------------- token manager
NoBundle == [token |-> 0, refresh |-> 0, expiry |-> [loc |-> 0, off |-> 0]]
\* the lifetime the remote gives a bundle, in minutes: one minute more than
\* the refresh buffer, so that a fresh bundle is expiring a minute later
Lifetimes == {BufferMinutes + 1}
\* TokenBundle(data["token"], data["refresh"], data["expiry"]) of the n-th
\* response of the remote, which expires at minute e
TokenBundle(n, e) == [token |-> n, refresh |-> n, expiry |-> NowUtc(e)]
\* a variant that never reports a bundle as expiring
is_expiring_never(b, t) == FALSE
\* a variant that waits until the expiry lies within less than the buffer
is_expiring_strict(b, t) == Instant(NowUtc(t + BufferMinutes)) > Instant(b.expiry)
\* TokenBundle.is_expiring
is_expiring(b, t) == Instant(NowUtc(t + BufferMinutes)) >= Instant(b.expiry)

\* -------------------------------------------------------------- results
NoResult == [n |-> -1, since |-> NoneStr, err |-> ""]
NoRet ==
  [op |-> "", method |-> "", kind |-> "", n |-> 0, since |-> NoneStr, err |-> "", sent |-> 0]
Returned(m, n, since) ==
  [op |-> "collect_once", method |-> m, kind |-> "ok", n |-> n, since |-> since, err |-> "",
   sent |-> 0]
Raised(m, e) ==
  [op |-> "collect_once", method |-> m, kind |-> "exc", n |-> 0, since |-> NoneStr, err |-> e,
   sent |-> 0]

\* collect_method_data: the triple it returns for an outcome of collect_once
collect_method_data(r) ==
  IF r.kind = "ok" THEN [n |-> r.n, since |-> r.since, err |-> ""]
  ELSE [n |-> 0, since |-> EmptyStr, err |-> r.err]

\* history kept for the properties below, not state of the program
NoPrev == [method |-> "", state |-> AbsentDoc, csv |-> NoFile]
PrevOf(r, f, p) ==
  IF r.op = "collect_once" /\ r.kind = "ok" /\ f.got = "list" /\ f.items = <<>>
  THEN [method |-> r.method, state |-> p.state[r.method], csv |-> p.csv[r.method]]
  ELSE NoPrev
NoRow == [_id |-> "", start |-> EmptyStr, end |-> EmptyStr, data |-> 0, ingested_at |-> EmptyStr]
\* the rows handed to append_csv, as text, the last one per id winning
RECURSIVE Handed(_, _, _)
Handed(old, rows, t) ==
  IF rows = <<>> THEN old
  ELSE LET r == Head(rows)
       IN  Handed([old EXCEPT ![r._id] =
                     [_id |-> r._id, start |-> CellText(r.start), end |-> CellText(r.end),
                      data |-> r.data, ingested_at |-> utc_now_iso(t)]],
                  Tail(rows), t)

\* the callers that may run at the same time
Threads == 1..MaxLoops
\* the locals of a caller: where it stands; for a loop on the token manager
\* the refresh token it submitted (sent), the bundle the remote answered with
\* (got), the access token ensure() gave it
\* (token) and whether the manager held another bundle when it fetched
\* (stale); for an append the metric, the rows, the DataFrame made of them
\* (df), whether the file existed and the DataFrame read from it (old);
\* overlap tells that another caller was
\* in the same section while this one was
IdleThread ==
  [pc |-> "idle", sent |-> 0, got |-> NoBundle, token |-> 0, stale |-> FALSE,
   method |-> "", rows |-> <<>>,
   df |-> <<>>, existed |-> FALSE, old |-> <<>>, overlap |-> FALSE]

IdleFrame ==
  [method |-> "", start_date |-> NoneStr, end_date |-> NoneStr, last_since |-> NoneStr,
   since |-> NoneStr, gte |-> NoneStr, lte |-> NoneStr, update_state |-> FALSE,
   token |-> 0, items |-> <<>>, got |-> "", attempts |-> 0, retried |-> FALSE]

Init ==
  /\ now = Now0
  /\ stateFile \in [Metrics -> InitDocs]
  /\ stateFile[METHODS[2]] = AbsentDoc
  /\ csvFile = [m \in Metrics |-> NoFile]
  /\ bundle = NoBundle
  /\ issued = 0
  /\ pc = "idle"
  /\ mode = "none"
  /\ queue = <<>>
  /\ results = [m \in Metrics |-> NoResult]
  /\ fr = IdleFrame
  /\ ret = NoRet
  /\ cycles = 0
  /\ pre = [state |-> stateFile, csv |-> csvFile]
  /\ log = <<>>
  /\ prev = NoPrev
  /\ latest = [m \in Metrics |-> [id \in Ids |-> NoRow]]
  /\ threads = [t \in Threads |-> IdleThread]
  /\ redeemed = {}

\* -------------------------------------------------------------- queries
\* build_query_since
build_query_since(since_iso) == [gte |-> since_iso, lte |-> NoneStr]
\* a variant that leaves the end date out of the filter
build_query_date_range_open(start_date, end_date) == [gte |-> start_date, lte |-> NoneStr]
\* build_query_date_range
build_query_date_range(start_date, end_date) ==
  [gte |-> start_date, lte |-> IF Truthy(end_date) THEN end_date ELSE NoneStr]

\* a variant that lets every call move the cursor
update_state_always(start_date) == TRUE
\* collect_once: whether the call is one that may move the cursor
update_state_of(start_date) == ~Truthy(start_date)

\* -------------------------------------------------------------- actions
\* time passes between calls
Tick ==
  /\ pc = "idle"
  /\ cycles < MaxCycles
  /\ now < Now0 + MaxTicks
  /\ now' = now + 1
  /\ UNCHANGED <<stateFile, csvFile, bundle, issued, pc, mode, queue, results, fr, ret,
                 cycles, pre, log, prev, latest>>
  /\ UNCHANGED <<threads, redeemed>>

\* TokenManager.__init__: login; a rejected login raises and leaves no manager
Login ==
  /\ pc = "idle"
  /\ bundle = NoBundle
  /\ \/ \E life \in Lifetimes :
          /\ bundle' = TokenBundle(issued + 1, now + life)
          /\ issued' = issued + 1
          /\ ret' = [NoRet EXCEPT !.op = "login", !.kind = "ok"]
     \/ /\ ret' = [NoRet EXCEPT !.op = "login", !.kind = "exc", !.err = "HTTPError"]
        /\ UNCHANGED <<bundle, issued>>
  /\ UNCHANGED <<now, stateFile, csvFile, pc, mode, queue, results, fr, cycles, pre, log, prev,
                 latest>>
  /\ UNCHANGED <<threads, redeemed>>

\* the frame of a call with the given date arguments, before collect_once runs
CallFrame(start_date, end_date) ==
  [IdleFrame EXCEPT !.start_date = start_date, !.end_date = end_date]

\* collect_method_data(method, tm, start_date, end_date) is called
CollectMethodData ==
  /\ pc = "idle"
  /\ bundle # NoBundle
  /\ cycles < MaxCycles
  /\ \E m \in Metrics, sd \in StartDates, ed \in EndDates :
       /\ queue' = <<m>>
       /\ fr' = CallFrame(sd, ed)
  /\ mode' = "single"
  /\ pc' = "begin"
  /\ results' = [m \in Metrics |-> NoResult]
  /\ ret' = NoRet
  /\ log' = <<>>
  /\ pre' = [state |-> stateFile, csv |-> csvFile]
  /\ prev' = PrevOf(ret, fr, pre)
  /\ UNCHANGED <<now, stateFile, csvFile, bundle, issued, cycles, latest>>
  /\ UNCHANGED <<threads, redeemed>>

\* collect_all_methods_data(tm, start_date, end_date) is called
CollectAll ==
  /\ pc = "idle"
  /\ bundle # NoBundle
  /\ cycles + Len(METHODS) <= MaxCycles
  /\ \E sd \in StartDates, ed \in EndDates : fr' = CallFrame(sd, ed)
  /\ queue' = METHODS
  /\ mode' = "batch"
  /\ pc' = "begin"
  /\ results' = [m \in Metrics |-> NoResult]
  /\ ret' = NoRet
  /\ log' = <<>>
  /\ pre' = [state |-> stateFile, csv |-> csvFile]
  /\ prev' = PrevOf(ret, fr, pre)
  /\ UNCHANGED <<now, stateFile, csvFile, bundle, issued, cycles, latest>>
  /\ UNCHANGED <<threads, redeemed>>

\* initialize_token_manager raises: ValueError when the credentials are not
\* configured, the HTTPError of a login the remote rejects
InitErrors == {"ValueError", "HTTPError"}

\* collect_method_data(method, None, start_date, end_date): the call creates
\* its token manager first, outside its try block
CollectMethodDataNoTm ==
  /\ pc = "idle"
  /\ bundle = NoBundle
  /\ cycles < MaxCycles
  /\ \/ /\ \E life \in Lifetimes :
             /\ bundle' = TokenBundle(issued + 1, now + life)
             /\ issued' = issued + 1
        /\ \E m \in Metrics, sd \in StartDates, ed \in EndDates :
             /\ queue' = <<m>>
             /\ fr' = CallFrame(sd, ed)
        /\ mode' = "single"
        /\ pc' = "begin"
        /\ results' = [m \in Metrics |-> NoResult]
        /\ ret' = NoRet
        /\ log' = <<>>
        /\ pre' = [state |-> stateFile, csv |-> csvFile]
        /\ prev' = PrevOf(ret, fr, pre)
     \/ /\ \E m \in Metrics, e \in InitErrors :
             ret' = [NoRet EXCEPT !.op = "collect_method_data", !.method = m,
                                  !.kind = "exc", !.err = e]
        /\ UNCHANGED <<bundle, issued, queue, fr, mode, pc, results, log, pre, prev>>
  /\ UNCHANGED <<now, stateFile, csvFile, cycles, latest, threads, redeemed>>

\* collect_all_methods_data(None, start_date, end_date): likewise
CollectAllNoTm ==
  /\ pc = "idle"
  /\ bundle = NoBundle
  /\ cycles + Len(METHODS) <= MaxCycles
  /\ \/ /\ \E life \in Lifetimes :
             /\ bundle' = TokenBundle(issued + 1, now + life)
             /\ issued' = issued + 1
        /\ \E sd \in StartDates, ed \in EndDates : fr' = CallFrame(sd, ed)
        /\ queue' = METHODS
        /\ mode' = "batch"
        /\ pc' = "begin"
        /\ results' = [m \in Metrics |-> NoResult]
        /\ ret' = NoRet
        /\ log' = <<>>
        /\ pre' = [state |-> stateFile, csv |-> csvFile]
        /\ prev' = PrevOf(ret, fr, pre)
     \/ /\ \E e \in InitErrors :
             ret' = [NoRet EXCEPT !.op = "collect_all_methods_data", !.kind = "exc",
                                  !.err = e]
        /\ UNCHANGED <<bundle, issued, queue, fr, mode, pc, results, log, pre, prev>>
  /\ UNCHANGED <<now, stateFile, csvFile, cycles, latest, threads, redeemed>>

\* a variant in which an exception of collect_once ends the batch
FinishAbort(r) ==
  /\ ret' = r
  /\ results' = [results EXCEPT ![Head(queue)] = collect_method_data(r)]
  /\ queue' = IF r.kind = "exc" THEN <<>> ELSE Tail(queue)
  /\ pc' = IF Tail(queue) = <<>> \/ r.kind = "exc" THEN "idle" ELSE "begin"
\* collect_once ends with outcome r: collect_method_data turns it into the
\* method's triple, and the batch loop goes on to the next method
Finish(r) ==
  /\ ret' = r
  /\ results' = [results EXCEPT ![Head(queue)] = collect_method_data(r)]
  /\ queue' = Tail(queue)
  /\ pc' = IF Tail(queue) = <<>> THEN "idle" ELSE "begin"

\* a variant in which the load writes the cursor it repaired back to disk
BeginPersistsLoaded ==
  /\ pc = "begin"
  /\ LET m == Head(queue)
         ld == load_state(stateFile[m], now)
         q == IF Truthy(fr.start_date)
              THEN build_query_date_range(fr.start_date, fr.end_date)
              ELSE build_query_since(ld.last_since)
     IN  /\ cycles' = cycles + 1
         /\ pre' = [state |-> stateFile, csv |-> csvFile]
         /\ log' = <<"load">>
         /\ prev' = IF ret = NoRet THEN prev ELSE PrevOf(ret, fr, pre)
         /\ IF ld.exc # ""
            THEN /\ Finish(Raised(m, ld.exc))
                 /\ fr' = [CallFrame(fr.start_date, fr.end_date) EXCEPT !.method = m]
                 /\ UNCHANGED stateFile
            ELSE /\ fr' = [CallFrame(fr.start_date, fr.end_date) EXCEPT
                             !.method = m,
                             !.last_since = ld.last_since,
                             !.since = IF Truthy(fr.start_date) THEN fr.start_date
                                       ELSE ld.last_since,
                             !.gte = q.gte,
                             !.lte = q.lte,
                             !.update_state = update_state_of(fr.start_date)]
                 /\ stateFile' = [stateFile EXCEPT ![m] = save_state(ld.last_since)]
                 /\ pc' = "ensure"
                 /\ ret' = NoRet
                 /\ UNCHANGED <<results, queue>>
  /\ UNCHANGED <<now, csvFile, bundle, issued, mode, latest>>
  /\ UNCHANGED <<threads, redeemed>>
\* collect_once, lines 239-251: load the state, choose the query
Begin ==
  /\ pc = "begin"
  /\ LET m == Head(queue)
         ld == load_state(stateFile[m], now)
         q == IF Truthy(fr.start_date)
              THEN build_query_date_range(fr.start_date, fr.end_date)
              ELSE build_query_since(ld.last_since)
     IN  /\ cycles' = cycles + 1
         /\ pre' = [state |-> stateFile, csv |-> csvFile]
         /\ log' = <<"load">>
         /\ prev' = IF ret = NoRet THEN prev ELSE PrevOf(ret, fr, pre)
         /\ IF ld.exc # ""
            THEN /\ Finish(Raised(m, ld.exc))
                 /\ fr' = [CallFrame(fr.start_date, fr.end_date) EXCEPT !.method = m]
            ELSE /\ fr' = [CallFrame(fr.start_date, fr.end_date) EXCEPT
                             !.method = m,
                             !.last_since = ld.last_since,
                             !.since = IF Truthy(fr.start_date) THEN fr.start_date
                                       ELSE ld.last_since,
                             !.gte = q.gte,
                             !.lte = q.lte,
                             !.update_state = update_state_of(fr.start_date)]
                 /\ pc' = "ensure"
                 /\ ret' = NoRet
                 /\ UNCHANGED <<results, queue>>
  /\ UNCHANGED <<now, stateFile, csvFile, bundle, issued, mode, latest>>
  /\ UNCHANGED <<threads, redeemed>>

\* a variant that sends a rejected refresh request a second time
EnsureRetriesRefresh ==
  /\ pc = "ensure"
  /\ \/ /\ ~is_expiring(bundle, now)
        /\ fr' = [fr EXCEPT !.token = bundle.token]
        /\ pc' = "fetch"
        /\ log' = Append(log, "ensure")
        /\ UNCHANGED <<bundle, issued, ret, results, queue, redeemed>>
     \/ /\ is_expiring(bundle, now)
        /\ \E life \in Lifetimes :
             /\ bundle' = TokenBundle(issued + 1, now + life)
             /\ issued' = issued + 1
             /\ fr' = [fr EXCEPT !.token = issued + 1]
        /\ redeemed' = redeemed \cup {bundle.refresh}
        /\ pc' = "fetch"
        /\ log' = Append(log, "refresh")
        /\ UNCHANGED <<ret, results, queue>>
     \/ /\ is_expiring(bundle, now)
        /\ Finish(Raised(fr.method, "HTTPError"))
        /\ log' = log \o <<"refresh", "refresh">>
        /\ UNCHANGED <<bundle, issued, fr, redeemed>>
  /\ UNCHANGED <<now, stateFile, csvFile, mode, cycles, pre, prev, latest>>
  /\ UNCHANGED threads
\* tm.ensure(), line 254: refresh when the bundle is expiring
Ensure ==
  /\ pc = "ensure"
  /\ \/ /\ ~is_expiring(bundle, now)
        /\ fr' = [fr EXCEPT !.token = bundle.token]
        /\ pc' = "fetch"
        /\ log' = Append(log, "ensure")
        /\ UNCHANGED <<bundle, issued, ret, results, queue, redeemed>>
     \/ /\ is_expiring(bundle, now)
        /\ \E life \in Lifetimes :
             /\ bundle' = TokenBundle(issued + 1, now + life)
             /\ issued' = issued + 1
             /\ fr' = [fr EXCEPT !.token = issued + 1]
        /\ redeemed' = redeemed \cup {bundle.refresh}
        /\ pc' = "fetch"
        /\ log' = Append(log, "refresh")
        /\ UNCHANGED <<ret, results, queue>>
     \/ /\ is_expiring(bundle, now)
        /\ Finish(Raised(fr.method, "HTTPError"))
        /\ log' = Append(log, "refresh")
        /\ UNCHANGED <<bundle, issued, fr, redeemed>>
  /\ UNCHANGED <<now, stateFile, csvFile, mode, cycles, pre, prev, latest>>
  /\ UNCHANGED threads

\* the exception a fetch_method call ends with when its last attempt fails:
\* the retry decorator (reraise is not set) wraps the cause in a RetryError
fetch_error(cause) == [type |-> "RetryError", status |-> cause]
\* collect_once, lines 258-259: the except clause and its test for 401
handles_401(e) == e.type = "HTTPError" /\ e.status = "401"

\* a variant that allows one attempt more
retry_stops_late(n) == n >= MaxAttempts + 1
\* stop_after_attempt(3): no further attempt after the n-th has failed
retry_stops(n) == n >= MaxAttempts
\* whether the failure of this request ends the fetch_method call with an
\* exception that the handler of collect_once answers with a forced refresh
forces_refresh(f, kind) ==
  /\ kind \in {"401", "transient"}
  /\ retry_stops(f.attempts + 1)
  /\ ~f.retried
  /\ handles_401(fetch_error(kind))
\* the entry of the I/O log for a response
http_event(kind) ==
  CASE kind = "401" -> "http_401" [] kind = "transient" -> "http_err" [] OTHER -> "http_ok"

\* one HTTP request of fetch_method, with what the retry decorator and the
\* handler of collect_once (lines 256-265) do with its outcome
Http ==
  /\ pc = "fetch"
  /\ \E resp \in Responses :
       /\ log' = Append(log, http_event(resp.kind))
            \o (IF forces_refresh(fr, resp.kind) THEN <<"forced_refresh">> ELSE <<>>)
       /\ IF resp.kind \in {"list", "nonlist"}
          THEN /\ fr' = [fr EXCEPT !.items = as_list(resp), !.got = resp.kind,
                                   !.attempts = fr.attempts + 1]
               /\ pc' = "store"
               /\ UNCHANGED <<bundle, issued, ret, results, queue, redeemed>>
          ELSE IF ~retry_stops(fr.attempts + 1)
          THEN /\ fr' = [fr EXCEPT !.attempts = fr.attempts + 1]
               /\ UNCHANGED <<pc, bundle, issued, ret, results, queue, redeemed>>
          ELSE IF forces_refresh(fr, resp.kind)
          THEN \/ \E life \in Lifetimes :
                    /\ bundle' = TokenBundle(issued + 1, now + life)
                    /\ issued' = issued + 1
                    /\ redeemed' = redeemed \cup {bundle.refresh}
                    /\ fr' = [fr EXCEPT !.token = issued + 1, !.attempts = 0,
                                        !.retried = TRUE]
                    /\ UNCHANGED <<pc, ret, results, queue>>
               \/ /\ Finish(Raised(fr.method, "HTTPError"))
                  /\ UNCHANGED <<bundle, issued, fr, redeemed>>
          ELSE /\ Finish(Raised(fr.method, fetch_error(resp.kind).type))
               /\ fr' = [fr EXCEPT !.attempts = fr.attempts + 1]
               /\ UNCHANGED <<bundle, issued, redeemed>>
  /\ UNCHANGED <<now, stateFile, csvFile, mode, cycles, pre, prev, latest>>
  /\ UNCHANGED threads

\* a variant that appends the items to the CSV of every configured method
StoreEveryMethod ==
  /\ pc = "store"
  /\ LET sorted == sort_items(fr.items)
     IN  /\ fr' = [fr EXCEPT !.items = sorted]
         /\ csvFile' = [m \in Metrics |-> append_csv(csvFile[m], sorted, now)]
         /\ latest' = [latest EXCEPT ![fr.method] = Handed(@, sorted, now)]
  /\ pc' = "save"
  /\ log' = Append(log, "append")
  /\ UNCHANGED <<now, stateFile, bundle, issued, mode, queue, results, ret, cycles, pre, prev>>
  /\ UNCHANGED <<threads, redeemed>>
\* collect_once, lines 266-271: sort the items, append them to the CSV
Store ==
  /\ pc = "store"
  /\ LET sorted == sort_items(fr.items)
     IN  /\ fr' = [fr EXCEPT !.items = sorted]
         /\ csvFile' = [csvFile EXCEPT ![fr.method] = append_csv(@, sorted, now)]
         /\ latest' = [latest EXCEPT ![fr.method] = Handed(@, sorted, now)]
  /\ pc' = "save"
  /\ log' = Append(log, "append")
  /\ UNCHANGED <<now, stateFile, bundle, issued, mode, queue, results, ret, cycles, pre, prev>>
  /\ UNCHANGED <<threads, redeemed>>

\* a variant that moves the cursor whenever records were fetched
SaveIgnoringRange ==
  /\ pc = "save"
  /\ IF fr.items # <<>>
     THEN LET new_since == end_or_start_iso(fr.items[Len(fr.items)])
          IN  /\ stateFile' = [stateFile EXCEPT ![fr.method] = save_state(new_since)]
              /\ Finish(Returned(fr.method, Len(fr.items), new_since))
              /\ log' = Append(log, "save")
     ELSE /\ Finish(Returned(fr.method, Len(fr.items), fr.since))
          /\ UNCHANGED <<stateFile, log>>
  /\ UNCHANGED <<now, csvFile, bundle, issued, mode, fr, cycles, pre, prev, latest>>
  /\ UNCHANGED <<threads, redeemed>>
\* a variant that returns the loaded cursor when it does not move it
SaveReturnsLoaded ==
  /\ pc = "save"
  /\ IF fr.items # <<>> /\ fr.update_state
     THEN LET new_since == end_or_start_iso(fr.items[Len(fr.items)])
          IN  /\ stateFile' = [stateFile EXCEPT ![fr.method] = save_state(new_since)]
              /\ Finish(Returned(fr.method, Len(fr.items), new_since))
              /\ log' = Append(log, "save")
     ELSE /\ Finish(Returned(fr.method, Len(fr.items), fr.last_since))
          /\ UNCHANGED <<stateFile, log>>
  /\ UNCHANGED <<now, csvFile, bundle, issued, mode, fr, cycles, pre, prev, latest>>
  /\ UNCHANGED <<threads, redeemed>>
\* collect_once, lines 273-280: move the cursor and return
Save ==
  /\ pc = "save"
  /\ IF fr.items # <<>> /\ fr.update_state
     THEN LET new_since == end_or_start_iso(fr.items[Len(fr.items)])
          IN  /\ stateFile' = [stateFile EXCEPT ![fr.method] = save_state(new_since)]
              /\ Finish(Returned(fr.method, Len(fr.items), new_since))
              /\ log' = Append(log, "save")
     ELSE /\ Finish(Returned(fr.method, Len(fr.items), fr.since))
          /\ UNCHANGED <<stateFile, log>>
  /\ UNCHANGED <<now, csvFile, bundle, issued, mode, fr, cycles, pre, prev, latest>>
  /\ UNCHANGED <<threads, redeemed>>

Next ==
  \/ Tick
  \/ Login
  \/ CollectMethodData
  \/ CollectAll
  \/ CollectMethodDataNoTm
  \/ CollectAllNoTm
  \/ Begin
  \/ Ensure
  \/ Http
  \/ Store
  \/ Save

Spec == Init /\ [][Next]_vars

\* ------------------------------------------- the token manager on its own
\* TokenManager driven directly: login, then ensure() at any later time, with
\* the remote free to give short and long lifetimes (one minute; the refresh
\* buffer; just above it; well above it)
TokenLifetimes == {1, BufferMinutes, BufferMinutes + 1, BufferMinutes + 3}

TokenInit ==
  /\ now = Now0
  /\ stateFile = [m \in Metrics |-> AbsentDoc]
  /\ csvFile = [m \in Metrics |-> NoFile]
  /\ bundle = NoBundle
  /\ issued = 0
  /\ pc = "idle"
  /\ mode = "none"
  /\ queue = <<>>
  /\ results = [m \in Metrics |-> NoResult]
  /\ fr = IdleFrame
  /\ ret = NoRet
  /\ cycles = 0
  /\ pre = [state |-> stateFile, csv |-> csvFile]
  /\ log = <<>>
  /\ prev = NoPrev
  /\ latest = [m \in Metrics |-> [id \in Ids |-> NoRow]]
  /\ threads = [t \in Threads |-> IdleThread]
  /\ redeemed = {}

\* time passes
TokenTick ==
  /\ now < Now0 + MaxClock
  /\ now' = now + 1
  /\ UNCHANGED <<stateFile, csvFile, bundle, issued, pc, mode, queue, results, fr, ret,
                 cycles, pre, log, prev, latest>>
  /\ UNCHANGED <<threads, redeemed>>

\* TokenManager.__init__: login
TokenLogin ==
  /\ bundle = NoBundle
  /\ \/ \E life \in TokenLifetimes :
          /\ bundle' = TokenBundle(issued + 1, now + life)
          /\ issued' = issued + 1
          /\ ret' = [NoRet EXCEPT !.op = "login", !.kind = "ok"]
     \/ /\ ret' = [NoRet EXCEPT !.op = "login", !.kind = "exc", !.err = "HTTPError"]
        /\ UNCHANGED <<bundle, issued>>
  /\ log' = <<"login">>
  /\ UNCHANGED <<now, stateFile, csvFile, pc, mode, queue, results, fr, cycles, pre, prev,
                 latest>>
  /\ UNCHANGED <<threads, redeemed>>

\* a variant that takes the access token and the expiry of a refresh
\* response and keeps the refresh token it had
TokenEnsureKeepsRefresh ==
  /\ bundle # NoBundle
  /\ \/ /\ ~is_expiring(bundle, now)
        /\ ret' = [NoRet EXCEPT !.op = "ensure", !.kind = "ok", !.n = bundle.token]
        /\ log' = <<>>
        /\ UNCHANGED <<bundle, issued, redeemed>>
     \/ /\ is_expiring(bundle, now)
        /\ issued < MaxIssued
        /\ \E life \in TokenLifetimes :
             /\ bundle' = [TokenBundle(issued + 1, now + life) EXCEPT !.refresh = bundle.refresh]
             /\ issued' = issued + 1
             /\ ret' = [NoRet EXCEPT !.op = "ensure", !.kind = "ok", !.n = issued + 1,
                                      !.sent = bundle.refresh]
        /\ redeemed' = redeemed \cup {bundle.refresh}
        /\ log' = <<"refresh">>
     \/ /\ is_expiring(bundle, now)
        /\ ret' = [NoRet EXCEPT !.op = "ensure", !.kind = "exc", !.err = "HTTPError",
                                 !.sent = bundle.refresh]
        /\ log' = <<"refresh">>
        /\ UNCHANGED <<bundle, issued, redeemed>>
  /\ UNCHANGED <<now, stateFile, csvFile, pc, mode, queue, results, fr, cycles, pre, prev,
                 latest>>
  /\ UNCHANGED threads
\* TokenManager.ensure(): ret.n is the access token returned, log the
\* network calls made by this call
TokenEnsure ==
  /\ bundle # NoBundle
  /\ \/ /\ ~is_expiring(bundle, now)
        /\ ret' = [NoRet EXCEPT !.op = "ensure", !.kind = "ok", !.n = bundle.token]
        /\ log' = <<>>
        /\ UNCHANGED <<bundle, issued, redeemed>>
     \/ /\ is_expiring(bundle, now)
        /\ issued < MaxIssued
        /\ \E life \in TokenLifetimes :
             /\ bundle' = TokenBundle(issued + 1, now + life)
             /\ issued' = issued + 1
             /\ ret' = [NoRet EXCEPT !.op = "ensure", !.kind = "ok", !.n = issued + 1,
                                      !.sent = bundle.refresh]
        /\ redeemed' = redeemed \cup {bundle.refresh}
        /\ log' = <<"refresh">>
     \/ /\ is_expiring(bundle, now)
        /\ ret' = [NoRet EXCEPT !.op = "ensure", !.kind = "exc", !.err = "HTTPError",
                                 !.sent = bundle.refresh]
        /\ log' = <<"refresh">>
        /\ UNCHANGED <<bundle, issued, redeemed>>
  /\ UNCHANGED <<now, stateFile, csvFile, pc, mode, queue, results, fr, cycles, pre, prev,
                 latest>>
  /\ UNCHANGED threads

TokenNext ==
  \/ TokenTick
  \/ TokenLogin
  \/ TokenEnsure

TokenSpec == TokenInit /\ [][TokenNext]_vars

\* ------------------------------------------- the status of the state store
\* The state documents as the dashboard reads them: a collection persists a
\* cursor (save_state), get_method_last_update shows it.
Never == [k |-> "never", loc |-> 0, sfx |-> ""]
InvalidDate(s) == [k |-> "invalid", loc |-> s.loc, sfx |-> s.sfx]
\* dt.strftime("%Y-%m-%d %H:%M:%S UTC"): the fields of dt as they are, then
\* the literal " UTC"
strftime_utc(dt) == [k |-> "fmt", loc |-> dt.loc, sfx |-> " UTC"]

\* get_method_last_update on the document doc at clock t: [exc, text]
get_method_last_update(doc, t) ==
  LET ld == load_state(doc, t)
  IN  IF ld.exc # "" THEN [exc |-> ld.exc, text |-> NoneStr]
      ELSE IF ~Truthy(ld.last_since) THEN [exc |-> "", text |-> Never]
      ELSE IF ParseFails(ld.last_since)
           THEN [exc |-> "", text |-> InvalidDate(ld.last_since)]
           ELSE [exc |-> "", text |-> strftime_utc(parse_iso_datetime(ld.last_since))]

\* the cursors a collection may persist: the end or start text of a record
StatusCursors == {Ts(T1, "Z"), Ts(T1, ""), Ts(T2, "+00:00"), Ts(T3, "+01:00"), BadStr}

StatusInit ==
  /\ now = Now0
  /\ stateFile \in [Metrics -> {AbsentDoc, CorruptDoc}]
  /\ csvFile = [m \in Metrics |-> NoFile]
  /\ bundle = NoBundle
  /\ issued = 0
  /\ pc = "idle"
  /\ mode = "none"
  /\ queue = <<>>
  /\ results = [m \in Metrics |-> NoResult]
  /\ fr = IdleFrame
  /\ ret = NoRet
  /\ cycles = 0
  /\ pre = [state |-> stateFile, csv |-> csvFile]
  /\ log = <<>>
  /\ prev = NoPrev
  /\ latest = [m \in Metrics |-> [id \in Ids |-> NoRow]]
  /\ threads = [t \in Threads |-> IdleThread]
  /\ redeemed = {}

\* a collection persists the cursor s of metric m: save_state
StatusSave ==
  /\ \E m \in Metrics, s \in StatusCursors :
       stateFile' = [stateFile EXCEPT ![m] = save_state(s)]
  /\ UNCHANGED <<now, csvFile, bundle, issued, pc, mode, queue, results, fr, ret, cycles,
                 pre, log, prev, latest>>
  /\ UNCHANGED <<threads, redeemed>>

\* get_method_last_update(method) is called: ret.since is the text returned
GetMethodLastUpdate ==
  /\ \E m \in Metrics :
       LET r == get_method_last_update(stateFile[m], now)
       IN  ret' = [NoRet EXCEPT !.op = "get_method_last_update", !.method = m,
                                !.kind = IF r.exc = "" THEN "ok" ELSE "exc",
                                !.since = r.text, !.err = r.exc]
  /\ UNCHANGED <<now, stateFile, csvFile, bundle, issued, pc, mode, queue, results, fr,
                 cycles, pre, log, prev, latest>>
  /\ UNCHANGED <<threads, redeemed>>

StatusNext ==
  \/ TokenTick
  \/ StatusSave
  \/ GetMethodLastUpdate

StatusSpec == StatusInit /\ [][StatusNext]_vars

\* --------------------------------------------------------------- claims
\* a collect_once call has begun for fr.method (and may have ended)
InCycle == fr.method # ""
\* the running or last collect_once has ended
Ended == InCycle /\ ret.op = "collect_once" /\ ret.method = fr.method
\* the I/O log holds event e
Logged(e) == \E i \in DOMAIN log : log[i] = e

\* C1: a collect_once call with an explicit start date leaves the metric's
\* persisted cursor as it was before the call, whatever the fetch brings
\* (records, an empty list, no list, a failure).
C1_ExplicitRangeKeepsCursor ==
  (InCycle /\ Truthy(fr.start_date)) => stateFile[fr.method] = pre.state[fr.method]
\* an explicit-range call has stored fetched records and returned
C1_Witness ==
  /\ Ended /\ Truthy(fr.start_date)
  /\ ret.kind = "ok" /\ ret.n > 0
  /\ csvFile[fr.method] # pre.csv[fr.method]

\* the rows of a CSV file whose _id cell reads id
RowsOf(file, id) == {i \in DOMAIN file.rows : file.rows[i]._id = id}

\* C2: after any sequence of append calls the record store of a metric holds
\* exactly one row for every record id ever appended, and that row carries
\* the values of the id's latest appended occurrence.
C2_OneRowPerIdLastWins ==
  \A m \in Metrics, id \in Ids :
    latest[m][id] # NoRow =>
      /\ Cardinality(RowsOf(csvFile[m], id)) = 1
      /\ \A i \in RowsOf(csvFile[m], id) : csvFile[m].rows[i] = latest[m][id]
\* the same, for the ids that are not made of digits only
C2_NonNumericIds ==
  \A m \in Metrics, id \in Ids :
    (latest[m][id] # NoRow /\ ~NumericLooking(id)) =>
      /\ Cardinality(RowsOf(csvFile[m], id)) = 1
      /\ \A i \in RowsOf(csvFile[m], id) : csvFile[m].rows[i] = latest[m][id]

\* the cursor value of a record: its end, or its start when it has no end
CursorValue(x) == IF x.end.k \in {"none", "empty"} THEN x.start ELSE x.end
\* a timestamp text in the form isoformat() gives it
Canonical(v) == IF v.k = "ts" /\ v.sfx \in {"", "Z"} THEN Ts(v.loc, "+00:00") ELSE v

\* C3: after an incremental collect_once whose fetch returned records, every
\* fetched record id has its row in the record store and the persisted
\* last_since is the end (else the start) of the last record of the sorted
\* list, in canonical form: an end of T2 "Z" is persisted as T2 "+00:00".
C3_CursorAdvancesToLastRecord ==
  (Ended /\ ret.kind = "ok" /\ ~Truthy(fr.start_date) /\ fr.items # <<>>) =>
    LET m == fr.method
        last == fr.items[Len(fr.items)]
    IN  /\ stateFile[m].k = "doc"
        /\ stateFile[m].last_since = Canonical(CursorValue(last))
        /\ CursorValue(last) = Ts(T2, "Z") => stateFile[m].last_since = Ts(T2, "+00:00")
        /\ \A i \in DOMAIN fr.items : RowsOf(csvFile[m], fr.items[i]._id) # {}
        /\ \A i, j \in DOMAIN fr.items :
             i < j => ~StrLess(CursorValue(fr.items[j]), CursorValue(fr.items[i]))
\* the worked example: one record with end T2 "Z" was fetched and stored
C3_Witness ==
  /\ Ended /\ ret.kind = "ok" /\ ~Truthy(fr.start_date)
  /\ fr.items = <<Rec("a", Ts(T1, "Z"), Ts(T2, "Z"), 1)>>
  /\ stateFile[fr.method] = Doc(Ts(T2, "+00:00"))
  /\ Cardinality(RowsOf(csvFile[fr.method], "a")) = 1

\* the positions of the HTTP requests in the I/O log, and of those that failed
HttpAt == {i \in DOMAIN log : log[i] \in {"http_ok", "http_401", "http_err"}}
FailedAt == {i \in DOMAIN log : log[i] \in {"http_401", "http_err"}}
RefreshAt == {i \in DOMAIN log : log[i] = "forced_refresh"}

\* C4: when a fetch of a cycle is answered 401, the collector forces exactly
\* one token refresh and fetches once more with the new token.
C4_UnauthorizedForcesOneRefresh ==
  (Ended /\ Logged("http_401")) =>
    /\ Cardinality(RefreshAt) = 1
    /\ \A i \in HttpAt : log[i] = "http_401" => (i + 1 \in RefreshAt)

\* C5: when the remote answers every request that bears the old token with
\* 401 and every request that bears a refreshed token successfully, the cycle
\* refreshes the token, retries once and returns without an exception.
C5_RefreshThenRetrySucceeds ==
  (/\ Ended
   /\ HttpAt # {}
   /\ \A i \in HttpAt :
        IF \E j \in RefreshAt : j < i THEN log[i] = "http_ok" ELSE log[i] = "http_401")
  => (ret.kind = "ok" /\ Cardinality(RefreshAt) = 1)

\* C6: one fetch call makes at most 3 HTTP requests; it returns with the
\* first request that succeeds (so two failures and a success make the cycle
\* return that result), and raises only after 3 failed requests in a row.
C6_AtMostThreeAttempts ==
  /\ fr.attempts <= 3
  /\ Cardinality(HttpAt) = fr.attempts
  /\ pc \in {"store", "save"} =>
       /\ fr.attempts \in 1..3
       /\ Cardinality(FailedAt) = fr.attempts - 1
       /\ log[Len(log)] = "http_ok" \/ log[Len(log) - 1] = "http_ok"
  /\ (Ended /\ ret.kind = "ok") =>
       /\ Cardinality(HttpAt \ FailedAt) = 1
       /\ Cardinality(FailedAt) <= 2
       /\ \A i \in FailedAt, j \in HttpAt \ FailedAt : i < j
       /\ ret.n = Len(fr.items)
  /\ (Ended /\ ret.kind = "exc" /\ HttpAt # {}) =>
       /\ FailedAt = HttpAt
       /\ Cardinality(FailedAt) = 3
  /\ (Ended /\ Cardinality(FailedAt) < 3 /\ HttpAt # {}) => ret.kind = "ok"
\* two transient failures, then a response with records: the cycle returned it
C6_Witness ==
  /\ Ended /\ ret.kind = "ok" /\ ret.n > 0
  /\ fr.attempts = 3
  /\ Cardinality({i \in DOMAIN log : log[i] = "http_err"}) = 2

\* C7: a second collect_once in a row on a metric whose fetch returns an
\* empty list both times leaves the persisted cursor and the record store of
\* the metric as they were before the first of the two: nothing is written
\* and no file is created.
C7_EmptyFetchTwiceChangesNothing ==
  (Ended /\ ret.kind = "ok" /\ fr.got = "list" /\ fr.items = <<>>) =>
    /\ ret.n = 0
    /\ stateFile[fr.method] = pre.state[fr.method]
    /\ csvFile[fr.method] = pre.csv[fr.method]
    /\ prev.method = fr.method =>
         /\ stateFile[fr.method] = prev.state
         /\ csvFile[fr.method] = prev.csv
\* two cycles in a row fetched an empty list for a metric that has no files
C7_Witness ==
  /\ Ended /\ ret.kind = "ok" /\ fr.got = "list" /\ fr.items = <<>>
  /\ ~Truthy(fr.start_date)
  /\ prev.method = fr.method
  /\ stateFile[fr.method] = AbsentDoc
  /\ csvFile[fr.method] = NoFile

\* the I/O log of a cycle that is about to write the state: the state was
\* read, the token obtained, the fetch ended with a success, the CSV appended
ReadyToSave ==
  /\ Len(log) >= 4
  /\ log[1] = "load"
  /\ log[2] \in {"ensure", "refresh"}
  /\ \A i \in 3..(Len(log) - 2) : log[i] \in {"http_401", "http_err"}
  /\ log[Len(log) - 1] = "http_ok"
  /\ log[Len(log)] = "append"

\* C8: a state document is written only by an incremental collect_once, for
\* its own metric, after its state read, token, successful fetch and the
\* append of all fetched records to the record store, in this order.
C8_StateWrittenLast ==
  [][stateFile' # stateFile =>
       /\ pc = "save"
       /\ ~Truthy(fr.start_date)
       /\ ReadyToSave
       /\ \A m \in Metrics \ {fr.method} : stateFile'[m] = stateFile[m]
       /\ \A i \in DOMAIN fr.items : RowsOf(csvFile[fr.method], fr.items[i]._id) # {}
       /\ log' = Append(log, "save")]_vars
\* a cycle has written the state document of its metric
C8_Witness ==
  /\ Ended /\ ret.kind = "ok"
  /\ log[Len(log)] = "save"
  /\ stateFile[fr.method] # pre.state[fr.method]

\* C9: in a batch run a failure of collect_once for one metric does not stop
\* the batch: when the batch has returned every configured metric has its
\* entry, a failed metric's entry is (0, "", message), and the last metric
\* was processed and reports its own outcome.
C9_BatchSurvivesFailure ==
  (mode = "batch" /\ pc = "idle") =>
    /\ queue = <<>>
    /\ \A m \in Metrics :
         /\ results[m] # NoResult
         /\ results[m].err # "" => (results[m].n = 0 /\ results[m].since = EmptyStr)
    /\ ret.method = METHODS[Len(METHODS)]
    /\ results[ret.method] = collect_method_data(ret)
    /\ ret.kind = "exc" <=> results[ret.method].err # ""
\* the first metric of a batch failed and the second stored records
C9_Witness ==
  /\ mode = "batch" /\ pc = "idle"
  /\ results[METHODS[1]].err # ""
  /\ results[METHODS[2]].err = "" /\ results[METHODS[2]].n > 0
  /\ csvFile[METHODS[2]].exists

\* C10: the last_since of the state load returns always is the text of a
\* timezone-aware instant in UTC: never missing, empty, naive or with
\* another offset.
C10_LoadedCursorIsUtc ==
  \A m \in Metrics :
    LET ld == load_state(stateFile[m], now)
    IN  ld.exc = "" => (ld.last_since.k = "ts" /\ ld.last_since.sfx \in {"Z", "+00:00"})

\* C11: a metric whose state document is corrupt, or holds a cursor that
\* cannot be parsed, does not make the state load fail: the load gives the
\* default cursor of 24 hours before now and the cycle goes on past it.
C11_MalformedStateSelfHeals ==
  (InCycle /\ pre.state[fr.method] \in {CorruptDoc, Doc(BadStr)}) =>
    /\ ~(Ended /\ ret.kind = "exc" /\ log = <<"load">>)
    /\ \E t \in Now0..now : fr.last_since = DefaultSince(t)

\* the canonical UTC text of a timestamp text: its instant, with "+00:00"
UtcText(v) == Ts(v.loc - (IF v.sfx = "+01:00" THEN 60 ELSE 0), "+00:00")

\* C12: when a state whose last_since parses has been saved, loading it gives
\* the original value brought to canonical ISO-8601 UTC, and saving and
\* loading that result once more gives the same text again.
C12_SaveLoadRoundTrip ==
  (Ended /\ ret.kind = "ok" /\ log[Len(log)] = "save") =>
    LET m == fr.method
        original == CursorValue(fr.items[Len(fr.items)])
        loaded == load_state(stateFile[m], now).last_since
    IN  original.k = "ts" =>
          /\ load_state(stateFile[m], now).exc = ""
          /\ loaded = UtcText(original)
          /\ load_state(save_state(loaded), now).last_since = loaded

\* the cursor values a load of document doc may have given during the run
LoadedFrom(doc) == {load_state(doc, t).last_since : t \in Now0..now}

\* C13 as stated: a collect_once that was given an explicit range, or that
\* fetched an empty list, returns as its second component the cursor the
\* state store held before the call (as stored or as the load gives it) and
\* leaves the state as it was.
C13_ReturnsPreviousCursor ==
  (Ended /\ ret.kind = "ok" /\ (Truthy(fr.start_date) \/ fr.items = <<>>)) =>
    /\ stateFile[fr.method] = pre.state[fr.method]
    /\ ret.since \in {pre.state[fr.method].last_since} \cup LoadedFrom(pre.state[fr.method])
\* C13 as amended: such a call leaves the state as it was; its second
\* component is the start_date argument when a range was given, and
\* otherwise the last_since the load gave at the start of the call.
C13_ReturnsStartDateOrLoadedCursor ==
  (Ended /\ ret.kind = "ok" /\ (Truthy(fr.start_date) \/ fr.items = <<>>)) =>
    /\ stateFile[fr.method] = pre.state[fr.method]
    /\ IF Truthy(fr.start_date)
       THEN ret.since = fr.start_date
       ELSE ret.since \in LoadedFrom(pre.state[fr.method])
\* an explicit-range call on a metric with a stored cursor returned its
\* start_date, which is not that cursor
C13_Witness ==
  /\ Ended /\ ret.kind = "ok" /\ Truthy(fr.start_date)
  /\ pre.state[fr.method] = Doc(Ts(T1, "+01:00"))
  /\ ret.since = Ts(T1, "Z")

\* C14: when the fetch of a cycle decodes to a value that is no list, the
\* cycle raises nothing, returns count 0 and leaves the metric's record store
\* and state document as they were before the call.
C14_NonListCountsAsEmpty ==
  (InCycle /\ fr.got = "nonlist") =>
    /\ fr.items = <<>>
    /\ csvFile[fr.method] = pre.csv[fr.method]
    /\ stateFile[fr.method] = pre.state[fr.method]
    /\ Ended => (ret.kind = "ok" /\ ret.n = 0)
\* a cycle on a metric that already has stored records and a saved cursor
\* got a JSON object and returned
C14_Witness ==
  /\ Ended /\ ret.kind = "ok" /\ fr.got = "nonlist"
  /\ ~Truthy(fr.start_date)
  /\ pre.csv[fr.method].exists
  /\ pre.state[fr.method] = Doc(Ts(T2, "+00:00"))

\* C15: whenever ensure() returns normally, the access token it returns is
\* that of the bundle the manager then holds, and that bundle expires later
\* than the current time.
C15_EnsuredTokenIsValid ==
  [][(ret'.op = "ensure" /\ ret'.kind = "ok" /\ now' = now) =>
       /\ ret'.n = bundle'.token
       /\ bundle'.expiry.loc - bundle'.expiry.off > now']_vars
\* ensure() has replaced a bundle and returned the token of a replacement
\* that is valid for one more minute
C15_Witness ==
  /\ ret.op = "ensure" /\ ret.kind = "ok" /\ log = <<"refresh">>
  /\ issued = 2
  /\ ret.n = bundle.token
  /\ bundle.expiry.loc = now + 1

\* C20: ensure() makes a refresh call exactly when now + 5 minutes >= the
\* expiry of the held bundle: otherwise it makes no network call, keeps the
\* bundle and returns its access token; when it refreshes it makes one call
\* and returns the access token of the bundle that replaces the held one.
C20_RefreshIffExpiring ==
  [][(ret'.op = "ensure" /\ now' = now) =>
       IF now + 5 >= bundle.expiry.loc - bundle.expiry.off
       THEN /\ log' = <<"refresh">>
            /\ ret'.kind = "ok" =>
                 /\ issued' = issued + 1
                 /\ bundle' # bundle
                 /\ bundle'.token = issued'
                 /\ ret'.n = bundle'.token
            /\ ret'.kind = "exc" => (bundle' = bundle /\ issued' = issued)
       ELSE /\ log' = <<>>
            /\ bundle' = bundle
            /\ issued' = issued
            /\ ret'.kind = "ok"
            /\ ret'.n = bundle.token]_vars
\* ensure() was called one minute after the login and replaced the bundle
C20_Witness ==
  /\ ret.op = "ensure" /\ ret.kind = "ok" /\ log = <<"refresh">>
  /\ issued = 2
  /\ \E life \in TokenLifetimes : bundle.expiry.loc = now + life /\ now = Now0 + 1

\* the record ids of a list of records
IdsOf(items) == {items[i]._id : i \in DOMAIN items}

\* C16: the count a collect_once returns, and the batch reports for the
\* metric, is the number of record ids that the call added to the record
\* store of the metric and that were not stored there before the call.
C16_CountIsNewRecords ==
  (Ended /\ ret.kind = "ok") =>
    LET m == fr.method
        added == {id \in IdsOf(fr.items) :
                    RowsOf(pre.csv[m], id) = {} /\ RowsOf(csvFile[m], id) # {}}
    IN  /\ ret.n = Cardinality(added)
        /\ results[m].n = Cardinality(added)

\* C17: get_method_last_update returns "Never" for a metric that has no
\* state document, and a formatted timestamp only for a metric whose state
\* document was written by a collection.
C17_NeverWithoutCollection ==
  [][(ret'.op = "get_method_last_update" /\ ret'.kind = "ok"
      /\ stateFile' = stateFile /\ now' = now) =>
       /\ stateFile[ret'.method].k = "absent" => ret'.since = Never
       /\ ret'.since.k = "fmt" => stateFile[ret'.method].k = "doc"]_vars

\* C18: when a fetch request is answered 401, the fetch call sends no
\* further request: the 401 reaches collect_once at once, as an error it can
\* recognise as a 401, without being retried like a transient failure.
C18_UnauthorizedIsNotRetried ==
  /\ \A i \in DOMAIN log : log[i] = "http_401" => (i + 1) \notin HttpAt
  /\ (Ended /\ ret.kind = "exc" /\ Logged("http_401") /\ log[Len(log)] = "http_401") =>
       ret.err = "HTTPError"

\* the instant (UTC minutes) of a record's end, else start, else the epoch
KeyInstant(x) ==
  LET v == CursorValue(x)
  IN  IF v.k = "ts" THEN v.loc - (IF v.sfx = "+01:00" THEN 60 ELSE 0) ELSE 0
\* the records of a list whose end-or-start text is k, in the list's order
WithKey(items, k) ==
  LET Test(x) == CursorValue(x) = k
  IN  SelectSeq(items, Test)

\* C19: the sort of the fetched records by (end, else start, else the epoch
\* sentinel) keeps records with equal keys in the order of the response, and
\* the record it puts last has the latest instant of all the records.
C19_StableSortTailIsLatest ==
  [][(pc = "store" /\ pc' = "save") =>
       LET given == fr.items
           sorted == fr'.items
       IN  /\ Len(sorted) = Len(given)
           /\ \A i \in DOMAIN given :
                WithKey(sorted, CursorValue(given[i])) = WithKey(given, CursorValue(given[i]))
           /\ \A i \in DOMAIN sorted : KeyInstant(sorted[i]) <= KeyInstant(sorted[Len(sorted)])]_vars

\* C21: a refresh call that fails is not retried: the step in which a cycle
\* ends with the error of a refresh adds exactly one refresh request to the
\* I/O of the cycle, the error reaches the caller of collect_once, and the
\* token manager holds the bundle it held before.
C21_FailedRefreshNotRetried ==
  [][(pc \in {"ensure", "fetch"} /\ ret'.op = "collect_once" /\ ret'.kind = "exc"
      /\ ret'.err = "HTTPError") =>
       /\ bundle' = bundle
       /\ issued' = issued
       /\ \E e \in {"refresh", "forced_refresh"} : log' = Append(log, e)
       /\ Cardinality({i \in DOMAIN log' : log'[i] \in {"refresh", "forced_refresh"}}) = 1
       /\ results'[fr.method] = [n |-> 0, since |-> EmptyStr, err |-> "HTTPError"]]_vars
\* a cycle ended with the error of a rejected refresh, the manager still
\* holding the expiring bundle
C21_Witness ==
  /\ Ended /\ ret.kind = "exc" /\ ret.err = "HTTPError"
  /\ log = <<"load", "refresh">>
  /\ bundle # NoBundle
  /\ bundle.token = issued
  /\ now + 5 >= bundle.expiry.loc

C22_WitnessRange ==
  /\ Ended /\ ret.kind = "ok"
  /\ fr.gte = Ts(T1, "Z") /\ fr.lte = Ts(T3, "Z")

\* C23: a collect_once for one metric, whether it returns or raises, leaves
\* the record store and the state document of every other metric as they
\* were when it began.
C23_OtherMetricsUntouched ==
  InCycle =>
    \A m \in Metrics \ {fr.method} :
      /\ csvFile[m] = pre.csv[m]
      /\ stateFile[m] = pre.state[m]
\* a cycle has written the CSV and the state of its metric while another
\* metric has a CSV and a state document of its own
C23_Witness ==
  /\ Ended /\ ret.kind = "ok"
  /\ csvFile[fr.method] # pre.csv[fr.method]
  /\ stateFile[fr.method] # pre.state[fr.method]
  /\ \E m \in Metrics \ {fr.method} : csvFile[m].exists /\ stateFile[m].k = "doc"

\* C26: when a collect_once ends in an error (the state does not load, the
\* refresh is rejected, the fetch gives up), the state document of the metric
\* is the one from before the call, and so is its record store, the error
\* having come at or before the fetch.
C26_FailedCycleKeepsStores ==
  (Ended /\ ret.kind = "exc") =>
    /\ stateFile[fr.method] = pre.state[fr.method]
    /\ csvFile[fr.method] = pre.csv[fr.method]
    /\ ~Logged("append") /\ ~Logged("save")
\* a fetch gave up after three failed requests on a metric that has a saved
\* cursor and stored records
C26_Witness ==
  /\ Ended /\ ret.kind = "exc" /\ ret.err = "RetryError"
  /\ fr.attempts = 3
  /\ stateFile[fr.method] = Doc(Ts(T2, "+00:00"))
  /\ csvFile[fr.method].exists

\* the instant (UTC minutes) of a timestamp text
InstantOfText(v) == v.loc - (IF v.sfx = "+01:00" THEN 60 ELSE 0)
\* the remote kept to the query: every record starts at or after the cursor
\* asked for and does not end before it starts
AnswersQuery(items, gte) ==
  /\ gte.k = "ts"
  /\ \A i \in DOMAIN items :
       /\ items[i].start.k = "ts"
       /\ InstantOfText(items[i].start) >= InstantOfText(gte)
       /\ items[i].end.k = "ts" => InstantOfText(items[i].end) >= InstantOfText(items[i].start)
       /\ items[i].end.k \in {"ts", "none", "empty"}

\* C27: as long as the remote answers every query with records that start at
\* or after the cursor asked for and do not end before they start, no step
\* moves the persisted last_since of a metric to an earlier instant.
C27_CursorNeverMovesBack ==
  [][\A m \in Metrics :
       (/\ stateFile'[m] # stateFile[m]
        /\ stateFile[m].k = "doc" /\ stateFile[m].last_since.k = "ts"
        /\ AnswersQuery(fr.items, fr.gte)) =>
         /\ stateFile'[m].k = "doc" /\ stateFile'[m].last_since.k = "ts"
         /\ InstantOfText(stateFile'[m].last_since) >= InstantOfText(stateFile[m].last_since)]_vars
\* a cycle moved a saved cursor forward, to the start of a record without end
C27_Witness ==
  /\ Ended /\ ret.kind = "ok" /\ log[Len(log)] = "save"
  /\ AnswersQuery(fr.items, fr.gte)
  /\ pre.state[fr.method] = Doc(Ts(T1, "Z"))
  /\ stateFile[fr.method] = Doc(Ts(T3, "+01:00"))

\* C28: after an incremental collect_once that moved the cursor, the second
\* component of its result is the last_since that was persisted, which is
\* also what the next load of the metric returns.
C28_ReturnedCursorIsPersisted ==
  (Ended /\ ret.kind = "ok" /\ log[Len(log)] = "save") =>
    /\ ret.since = stateFile[fr.method].last_since
    /\ ret.since = load_state(stateFile[fr.method], now).last_since

\* C29: with one caller, every refresh call submits the refresh token of the
\* latest successful login or refresh response, which no successful refresh
\* has redeemed before; and the access token and the refresh token the
\* manager holds always come from one and the same response, the latest.
C29_RefreshTokensUsedOnce ==
  [][/\ (ret'.op = "ensure" /\ log' = <<"refresh">> /\ now' = now) =>
          /\ ret'.sent = issued
          /\ ret'.sent \notin redeemed
          /\ ret'.kind = "ok" => redeemed' = redeemed \cup {ret'.sent}
     /\ bundle' # NoBundle =>
          /\ bundle'.token = bundle'.refresh
          /\ bundle'.token = issued'
          /\ bundle'.refresh \notin redeemed']_vars
\* the second successful refresh has submitted the refresh token that the
\* first one brought, and the manager holds the bundle of the third response
C29_Witness ==
  /\ ret.op = "ensure" /\ ret.kind = "ok" /\ ret.sent = 2
  /\ redeemed = {1, 2}
  /\ bundle.refresh = 3

\* C30: collect_method_data never raises: a call, with or without a token
\* manager, ends with a triple, which is (0, "", message) for every failure,
\* the failure to create the token manager included; and so does the batch
\* called without a token manager end with its result map.
C30_CollectMethodDataNeverRaises ==
  /\ ~(ret.op \in {"collect_method_data", "collect_all_methods_data"} /\ ret.kind = "exc")
  /\ (pc = "idle" /\ ret.op = "collect_once" /\ ret.kind = "exc") =>
       results[ret.method] = [n |-> 0, since |-> EmptyStr, err |-> ret.err]

\* ------------------------------------- append_csv called by several callers
\* append_csv holds no lock: between reading the file (lines 222-223) and
\* writing it back (lines 224-228) another call may read or write the same
\* file.  Each file read and each file write is taken as one step.

\* a file left by an earlier append: an older version of the first record
StoredFile ==
  [exists |-> TRUE, rows |-> to_csv(frame_of(<<Rec("a", Ts(T1, "Z"), Ts(T2, "Z"), 0)>>, Now0))]

\* a variant that writes the new records alone
append_csv_write_fresh(existed, old, df) ==
  [exists |-> TRUE, rows |-> to_csv(drop_duplicates(df))]
\* append_csv, lines 224-228: the file written from what was read earlier
append_csv_write(existed, old, df) ==
  IF existed
  THEN [exists |-> TRUE, rows |-> to_csv(drop_duplicates(old \o df))]
  ELSE [exists |-> TRUE, rows |-> to_csv(drop_duplicates(df))]

\* the callers that have read the file of metric m and not yet written it
Writing(m) == {u \in Threads : threads[u].pc = "write" /\ threads[u].method = m}

AppendInit ==
  /\ now = Now0
  /\ stateFile = [m \in Metrics |-> AbsentDoc]
  /\ csvFile \in [Metrics -> {NoFile, StoredFile}]
  /\ csvFile[METHODS[2]] = NoFile
  /\ bundle = NoBundle
  /\ issued = 0
  /\ pc = "idle"
  /\ mode = "none"
  /\ queue = <<>>
  /\ results = [m \in Metrics |-> NoResult]
  /\ fr = IdleFrame
  /\ ret = NoRet
  /\ cycles = 0
  /\ pre = [state |-> stateFile, csv |-> csvFile]
  /\ log = <<>>
  /\ prev = NoPrev
  /\ latest = [m \in Metrics |-> [id \in Ids |-> NoRow]]
  /\ threads = [t \in Threads |-> IdleThread]
  /\ redeemed = {}

\* append_csv up to line 223: return on an empty list; else build the
\* DataFrame, stamped, and read the file if it exists
AppendRead(t) ==
  /\ threads[t].pc = "idle"
  /\ \E m \in Metrics, rows \in SeqsUpTo(SampleRecords, MaxBatch) :
       IF rows = <<>>
       THEN threads' = [threads EXCEPT ![t].pc = "done", ![t].method = m]
       ELSE threads' =
              [u \in Threads |->
                 IF u = t
                 THEN [threads[t] EXCEPT !.pc = "write", !.method = m, !.rows = rows,
                                         !.df = frame_of(rows, now),
                                         !.existed = csvFile[m].exists,
                                         !.old = read_csv(csvFile[m].rows),
                                         !.overlap = Writing(m) # {}]
                 ELSE IF u \in Writing(m) THEN [threads[u] EXCEPT !.overlap = TRUE]
                 ELSE threads[u]]
  /\ UNCHANGED <<now, stateFile, csvFile, bundle, issued, pc, mode, queue, results, fr, ret,
                 cycles, pre, log, prev, latest, redeemed>>

\* append_csv, lines 224-228: merge, drop duplicates, write the whole file
AppendWrite(t) ==
  /\ threads[t].pc = "write"
  /\ csvFile' = [csvFile EXCEPT ![threads[t].method] =
                   append_csv_write(threads[t].existed, threads[t].old, threads[t].df)]
  /\ threads' = [threads EXCEPT ![t].pc = "done"]
  /\ UNCHANGED <<now, stateFile, bundle, issued, pc, mode, queue, results, fr, ret,
                 cycles, pre, log, prev, latest, redeemed>>

AppendNext ==
  \/ Tick
  \/ \E t \in Threads : AppendRead(t)
  \/ \E t \in Threads : AppendWrite(t)

AppendSpec == AppendInit /\ [][AppendNext]_vars

\* the calls on metric m that have returned
Appended(m) == {t \in Threads : threads[t].pc = "done" /\ threads[t].method = m}
\* no call on metric m read the file while another call stood between its
\* read and its write
Serialized(m) == \A t \in Threads : threads[t].method = m => ~threads[t].overlap

\* C24: append_csv is an unsynchronised read-modify-write of the whole file:
\* as long as the calls on one metric are serialized, every record id a
\* returned call appended has a row in the metric's store (exactly one, for
\* the ids that are not made of digits only), whatever calls run on the
\* other metric; a record can be missing only after calls on the same
\* metric that interleaved.
C24_SerializedAppendsKeepEveryId ==
  \A m \in Metrics :
    Serialized(m) =>
      \A t \in Appended(m) : \A id \in IdsOf(threads[t].rows) :
        /\ RowsOf(csvFile[m], id) # {}
        /\ ~NumericLooking(id) => Cardinality(RowsOf(csvFile[m], id)) = 1
\* two calls on one metric both read the file before either wrote it, both
\* have returned, and a record that one of them appended is not in the store
C24_Witness ==
  \E m \in Metrics : \E t \in Appended(m), u \in Appended(m) :
    /\ t # u
    /\ threads[t].overlap /\ threads[u].overlap
    /\ threads[t].old = threads[u].old
    /\ \E id \in IdsOf(threads[t].rows) : RowsOf(csvFile[m], id) = {}

\* ------------------------- one token manager shared by several loops
\* TokenManager holds no lock: a loop inside ensure() reads self.bundle,
\* calls the remote and assigns self.bundle, and another loop may do the same
\* in between; collect_once then fetches with the token ensure() returned.

\* the loops that have a refresh call under way
Refreshing == {u \in Threads : threads[u].pc \in {"refreshing", "responded"}}

LoopsInit ==
  /\ now = Now0
  /\ stateFile = [m \in Metrics |-> AbsentDoc]
  /\ csvFile = [m \in Metrics |-> NoFile]
  /\ \E life \in TokenLifetimes : bundle = TokenBundle(1, Now0 + life)
  /\ issued = 1
  /\ pc = "idle"
  /\ mode = "none"
  /\ queue = <<>>
  /\ results = [m \in Metrics |-> NoResult]
  /\ fr = IdleFrame
  /\ ret = NoRet
  /\ cycles = 0
  /\ pre = [state |-> stateFile, csv |-> csvFile]
  /\ log = <<>>
  /\ prev = NoPrev
  /\ latest = [m \in Metrics |-> [id \in Ids |-> NoRow]]
  /\ threads = [t \in Threads |-> IdleThread]
  /\ redeemed = {}

\* ensure(), lines 156-157: the test of the held bundle and, when it is
\* expiring, the request made with the refresh token read from it
EnsureCheck(t) ==
  /\ threads[t].pc = "idle"
  /\ IF is_expiring(bundle, now)
     THEN threads' =
            [u \in Threads |->
               IF u = t
               THEN [threads[t] EXCEPT !.pc = "refreshing", !.sent = bundle.refresh,
                                       !.overlap = Refreshing # {}]
               ELSE IF u \in Refreshing THEN [threads[u] EXCEPT !.overlap = TRUE]
               ELSE threads[u]]
     ELSE threads' = [threads EXCEPT ![t].pc = "return"]
  /\ UNCHANGED <<now, stateFile, csvFile, bundle, issued, pc, mode, queue, results, fr, ret,
                 cycles, pre, log, prev, latest, redeemed>>

\* refresh_token: the remote answers with a new bundle, or refuses (the
\* HTTPError leaves ensure() and the loop's cycle)
RefreshRespond(t) ==
  /\ threads[t].pc = "refreshing"
  /\ \/ /\ issued < MaxIssued
        /\ \E life \in TokenLifetimes :
             threads' = [threads EXCEPT ![t].pc = "responded",
                                        ![t].got = TokenBundle(issued + 1, now + life)]
        /\ issued' = issued + 1
        /\ redeemed' = redeemed \cup {threads[t].sent}
     \/ /\ threads' = [threads EXCEPT ![t].pc = "failed"]
        /\ UNCHANGED <<issued, redeemed>>
  /\ UNCHANGED <<now, stateFile, csvFile, bundle, pc, mode, queue, results, fr, ret,
                 cycles, pre, log, prev, latest>>

\* a variant that keeps the refresh token the manager held
EnsureAssignKeepsRefresh(t) ==
  /\ threads[t].pc = "responded"
  /\ bundle' = [threads[t].got EXCEPT !.refresh = bundle.refresh]
  /\ threads' = [threads EXCEPT ![t].pc = "return"]
  /\ UNCHANGED <<now, stateFile, csvFile, issued, pc, mode, queue, results, fr, ret,
                 cycles, pre, log, prev, latest, redeemed>>
\* ensure(), line 157: self.bundle = the bundle refresh_token returned
EnsureAssign(t) ==
  /\ threads[t].pc = "responded"
  /\ bundle' = threads[t].got
  /\ threads' = [threads EXCEPT ![t].pc = "return"]
  /\ UNCHANGED <<now, stateFile, csvFile, issued, pc, mode, queue, results, fr, ret,
                 cycles, pre, log, prev, latest, redeemed>>

\* ensure(), line 158: return self.bundle.token
EnsureReturn(t) ==
  /\ threads[t].pc = "return"
  /\ threads' = [threads EXCEPT ![t].pc = "fetch", ![t].token = bundle.token]
  /\ UNCHANGED <<now, stateFile, csvFile, bundle, issued, pc, mode, queue, results, fr, ret,
                 cycles, pre, log, prev, latest, redeemed>>

\* collect_once, line 257: the fetch made with the token ensure() returned;
\* stale tells that the manager held another bundle by then
LoopFetch(t) ==
  /\ threads[t].pc = "fetch"
  /\ threads' = [threads EXCEPT ![t].pc = "done",
                                ![t].stale = (bundle.token # threads[t].token)]
  /\ UNCHANGED <<now, stateFile, csvFile, bundle, issued, pc, mode, queue, results, fr, ret,
                 cycles, pre, log, prev, latest, redeemed>>

LoopsNext ==
  \/ Tick
  \/ \E t \in Threads : EnsureCheck(t)
  \/ \E t \in Threads : RefreshRespond(t)
  \/ \E t \in Threads : EnsureAssign(t)
  \/ \E t \in Threads : EnsureReturn(t)
  \/ \E t \in Threads : LoopFetch(t)

LoopsSpec == LoopsInit /\ [][LoopsNext]_vars

\* C25: the token manager has no synchronisation of its own: two loops that
\* share it have the same refresh token redeemed twice only in refresh
\* calls that overlap (each is made while the other is under way), and after
\* such calls a loop can fetch with the access token of a bundle already
\* superseded.  (A token the remote refused is still the held one, and the
\* next call submits it again.)
C25_SameRefreshTokenOnlyInOverlappingCalls ==
  \A t \in Threads, u \in Threads :
    (/\ t # u
     /\ threads[t].sent # 0 /\ threads[t].sent = threads[u].sent
     /\ threads[t].got # NoBundle /\ threads[u].got # NoBundle) =>
      (threads[t].overlap /\ threads[u].overlap)
\* two loops submitted the same refresh token in overlapping refresh calls,
\* the remote honoured both, and one of the loops has fetched with an access
\* token that the manager's bundle no longer carries
C25_Witness ==
  \E t \in Threads, u \in Threads :
    /\ t # u
    /\ threads[t].sent # 0 /\ threads[t].sent = threads[u].sent
    /\ threads[t].overlap /\ threads[u].overlap
    /\ threads[t].got # NoBundle /\ threads[u].got # NoBundle
    /\ threads[t].pc = "done" /\ threads[t].stale
    /\ threads[t].token = threads[t].got.token
    /\ bundle = threads[u].got

====
